---- MODULE Spec2Model ----
(***************************************************************************)
(* VolumeFader (src/volumefader.js, v0.2.0): the fade controller driven by *)
(* requestAnimationFrame.                                                  *)
(*                                                                         *)
(* Numbers.  Volume and fade levels are fixed-point integers, VolOne units *)
(* to the level 1; an arithmetic result is rounded to the nearest unit,    *)
(* which stands for the rounding of the doubles of the source.  Times are  *)
(* integer milliseconds.  A value handed in by the caller is a JavaScript  *)
(* value: a finite number, NaN, +Infinity or something that is not a       *)
(* number (a record with the fields tag and num).                          *)
(*                                                                         *)
(* Time.  Date.now() returns the same millisecond for every call made      *)
(* inside one synchronous handler; the clock advances between handlers.    *)
(*                                                                         *)
(* Callbacks.  A completion callback is one of a few closures over the     *)
(* fader (CallbackKinds); it runs inside the update step that finishes the *)
(* fade, as in the source, and whatever it calls on the fader is part of   *)
(* that step.                                                              *)
(*                                                                         *)
(* The interval-timer variant (src/unnamed/part_000, v0.1.0) is the second *)
(* part of the module: its fields are the variables iv..., updateInterval, *)
(* intervalTimer, and its methods carry the prefix iv_.  The two faders    *)
(* are different programs: Spec and LiveSpec run the first and leave the   *)
(* variables of the second alone, TimerSpec runs the second.               *)
(***************************************************************************)
EXTENDS Integers, Sequences, FiniteSets, TLC

\* ------------------------------------------------------------------ bounds
MaxTime == 2
MaxFades == 2
MaxRaf == 2
MaxCalls == 2
MaxTimers == 3

\* --------------------------------------------------------------- constants
\* the volume level 1 of validateVolumeLevel, in fixed-point units
VolOne == 3000
\* default fade duration of the constructor (ms)
DefaultFadeDuration == 500
\* default update interval of the constructor of the interval-timer variant (ms)
DefaultUpdateInterval == 50
\* the volume level 1 of validZeroToOne, in the fixed-point units of the
\* interval-timer variant
IvVolOne == 20

\* ------------------------------------------------------- JavaScript values
JsNum(n) == [tag |-> "number", num |-> n]
JsNaN == [tag |-> "NaN", num |-> 0]
JsInfinity == [tag |-> "Infinity", num |-> 0]
\* a value that is not a number and does not convert to one ("abc")
JsNonNumeric == [tag |-> "nonNumeric", num |-> 0]
\* an option or argument that was not given
JsUndefined == [tag |-> "undefined", num |-> 0]

\* Number.isNaN( value ): true of the number NaN only
NumberIsNaN(value) == value.tag = "NaN"

\* value > n, n a finite number (a non-number converts to NaN: false)
JsGreater(value, n) ==
    CASE value.tag = "number" -> value.num > n
      [] value.tag = "Infinity" -> TRUE
      [] OTHER -> FALSE

\* value >= n
JsGreaterEq(value, n) ==
    CASE value.tag = "number" -> value.num >= n
      [] value.tag = "Infinity" -> TRUE
      [] OTHER -> FALSE

\* value <= n
JsLessEq(value, n) ==
    CASE value.tag = "number" -> value.num <= n
      [] OTHER -> FALSE

\* n < value, n a finite number
JsLess(n, value) == JsGreater(value, n)

\* n + value, n a finite number, value a number
JsAdd(n, value) ==
    IF value.tag = "number" THEN JsNum(n + value.num) ELSE value

\* n / d rounded to the nearest integer, d > 0
RoundDiv(n, d) == (2 * n + d) \div (2 * d)

RECURSIVE Pow10(_)
Pow10(k) == IF k = 0 THEN 1 ELSE 10 * Pow10(k - 1)

\* ------------------------------------------------------------ validateVolumeLevel
\* validateVolumeLevel without the upper limit
validateVolumeLevel_noUpperLimit(value) ==
    ~NumberIsNaN(value) /\ JsGreaterEq(value, 0)

\* TRUE when validateVolumeLevel returns, FALSE when it throws the TypeError
validateVolumeLevel(value) ==
    ~NumberIsNaN(value) /\ JsGreaterEq(value, 0) /\ JsLessEq(value, VolOne)

\* ------------------------------------------------------------ exponentialScaler
\* 10 ^ ((logarithmic - 1) * 3), and 0 at 0.  The result is exact at the
\* decades (logarithmic = 1/3, 2/3, 1 give 0.01, 0.1, 1) and interpolated
\* linearly on the grid between two decades.
Decade(k) == (VolOne * Pow10(k)) \div 1000

exponentialScaler(logarithmic) ==
    IF logarithmic = 0 THEN 0
    ELSE IF logarithmic < 0 THEN Decade(0) \div 2
    ELSE LET k == (3 * logarithmic) \div VolOne
             below == (k * VolOne) \div 3
             above == ((k + 1) * VolOne) \div 3
         IN  Decade(k) + RoundDiv((logarithmic - below) * (Decade(k + 1) - Decade(k)),
                                  above - below)

\* a custom options.volumeScaler: the linear scale, function(value) { return value }
linearScaler(value) == value

\* this.volumeScaler( level )
volumeScaler(scaler, level) ==
    IF scaler = "exponentialScaler" THEN exponentialScaler(level) ELSE linearScaler(level)

\* ------------------------------------------------------------------- state
VARIABLES
    volume,         \* this.media.volume, fixed-point
    active,         \* this.active
    fade,           \* this.fade (NoFade when undefined)
    fadeDuration,   \* this.fadeDuration, a JavaScript value
    scaler,         \* this.volumeScaler: "exponentialScaler" or "linearScaler"
    raf,            \* updateVolume callbacks pending in requestAnimationFrame
    now,            \* Date.now()
    calls,          \* calls[id]: how often the callback of fade id was invoked
    nextId,         \* identity of the next fade record fadeTo creates
    superseded,     \* the fades fadeTo replaced while their callback was still due
    \* the interval-timer variant
    ivVolume,       \* this._media.volume, fixed-point
    ivFade,         \* this._fade (NoIvFade when undefined)
    ivFadeDuration, \* this._fadeDuration, a JavaScript value
    updateInterval, \* this._updateInterval, a JavaScript value
    intervalTimer,  \* this._intervalTimer: a timer id, 0 when undefined
    armed,          \* the interval timers of the fader the browser has armed
    nextTimer       \* the id the next setInterval returns

\* the fields of the requestAnimationFrame fader
rafVars == <<volume, active, fade, fadeDuration, scaler, raf, calls, nextId, superseded>>

\* the fields of the interval-timer fader and its timers
ivVars == <<ivVolume, ivFade, ivFadeDuration, updateInterval, intervalTimer, armed,
            nextTimer>>

vars == <<rafVars, now, ivVars>>

\* this.fade = undefined
NoFade == [id |-> 0, volStart |-> 0, volEnd |-> 0, timeStart |-> 0,
           timeEnd |-> JsNum(0), callback |-> "undefined"]

\* the callbacks a caller passes to fadeTo:
\*   undefined   no callback given
\*   noop        function() {}
\*   startOnce   function() { if (first) { first = false; fader.start() } }
\*   fadeTo      function() { fader.fadeTo( ChainTarget, function() {} ) }
\*   throws      function() { throw new Error() }
\*   notCallable a value that is no function ("done")
CallbackKinds == {"undefined", "noop", "startOnce", "fadeTo", "throws", "notCallable"}

\* callback instanceof Function
Callable(callback) == callback \notin {"undefined", "notCallable"}

\* the target of the fade a "fadeTo" callback starts
ChainTarget == VolOne \div 2

FadeIds == 1..(2 * MaxFades)

\* the fader as one value, threaded through the handlers; a handler adds to
\* writes the values it assigns to media.volume, sets thrown to the error it
\* throws and returned to the value it returns
Fader == [volume |-> volume, active |-> active, fade |-> fade,
          fadeDuration |-> fadeDuration, scaler |-> scaler, raf |-> raf,
          calls |-> calls, nextId |-> nextId, superseded |-> superseded,
          writes |-> <<>>, thrown |-> "none", returned |-> "undefined"]

\* this.media.volume = v
SetMediaVolume(p, v) == [p EXCEPT !.volume = v, !.writes = Append(@, v)]

\* ------------------------------------------------------------------ stop()
\* return this, unless an error is on its way up
ReturnThis(p) == IF p.thrown # "none" THEN p ELSE [p EXCEPT !.returned = "this"]

\* a method without return statement
ReturnUndefined(p) == [p EXCEPT !.returned = "undefined"]

\* stop() that flips the flag: this.active = ! this.active
stop_toggles(p) == ReturnThis([p EXCEPT !.active = ~@])

stop(p) == ReturnThis([p EXCEPT !.active = FALSE])

\* -------------------------------------------------------- setFadeDuration()
\* the condition of setFadeDuration with >= for >
validFadeDuration_allowsZero(d) == ~NumberIsNaN(d) /\ JsGreaterEq(d, 0)

\* the condition of setFadeDuration
validFadeDuration(d) == ~NumberIsNaN(d) /\ JsGreater(d, 0)

\* setFadeDuration that also moves the end of the fade in flight
setFadeDuration_movesFadeEnd(p, d) ==
    IF validFadeDuration(d)
    THEN ReturnThis([p EXCEPT !.fadeDuration = d,
                             !.fade = IF p.fade.id = 0 THEN p.fade
                                      ELSE [p.fade EXCEPT
                                              !.timeEnd = JsAdd(p.fade.timeStart, d)]])
    ELSE [p EXCEPT !.thrown = "TypeError: fade duration"]

setFadeDuration(p, d) ==
    IF validFadeDuration(d)
    THEN ReturnThis([p EXCEPT !.fadeDuration = d])
    ELSE [p EXCEPT !.thrown = "TypeError: fade duration"]

\* ------------------------------------------------------------ updateVolume()
\* progress * ( fade.volume.end - fade.volume.start ) + fade.volume.start, with
\* progress = ( now - fade.time.start ) / ( fade.time.end - fade.time.start );
\* an end time of Infinity makes progress 0
\* the level counted from the end volume: ... + fade.volume.end
Level_fromEnd(f, t) ==
    IF f.timeEnd.tag = "Infinity" THEN f.volEnd
    ELSE RoundDiv((t - f.timeStart) * (f.volEnd - f.volStart),
                  f.timeEnd.num - f.timeStart) + f.volEnd

\* the level with the progress counted down: ( fade.time.end - now ) / ...
Level_countsDown(f, t) ==
    IF f.timeEnd.tag = "Infinity" THEN f.volStart
    ELSE RoundDiv((f.timeEnd.num - t) * (f.volEnd - f.volStart),
                  f.timeEnd.num - f.timeStart) + f.volStart

Level(f, t) ==
    IF f.timeEnd.tag = "Infinity" THEN f.volStart
    ELSE RoundDiv((t - f.timeStart) * (f.volEnd - f.volStart),
                  f.timeEnd.num - f.timeStart) + f.volStart

\* the fade level an update step applies at time t: the level of the progress
\* while time is left, the end volume when time is up
StepLevel(f, t) == IF JsLess(t, f.timeEnd) THEN Level(f, t) ELSE f.volEnd

RECURSIVE updateVolume(_, _)

\* start(): set active, run the update method
start(p, t) == ReturnThis(updateVolume([p EXCEPT !.active = TRUE], t))

\* the fade a new fade replaces, when its callback is callable and was not invoked
Superseded(p) ==
    IF p.fade # NoFade /\ Callable(p.fade.callback) /\ p.calls[p.fade.id] = 0
    THEN {p.fade.id} ELSE {}

\* fadeTo that keeps a fade in flight: this.fade = this.fade || { ... }
fadeTo_keepsFadeInFlight(p, targetVolume, callback, t) ==
    IF ~validateVolumeLevel(targetVolume)
    THEN [p EXCEPT !.thrown = "TypeError: volume"]
    ELSE ReturnThis(start([p EXCEPT !.fade = IF p.fade # NoFade THEN p.fade
                                             ELSE [id |-> p.nextId,
                                                   volStart |-> p.volume,
                                                   volEnd |-> targetVolume.num,
                                                   timeStart |-> t,
                                                   timeEnd |-> JsAdd(t, p.fadeDuration),
                                                   callback |-> callback],
                                   !.nextId = @ + 1,
                                   !.superseded = @ \cup Superseded(p)], t))

\* fadeTo( targetVolume, callback )
fadeTo(p, targetVolume, callback, t) ==
    IF ~validateVolumeLevel(targetVolume)
    THEN [p EXCEPT !.thrown = "TypeError: volume"]
    ELSE ReturnThis(start([p EXCEPT !.fade = [id |-> p.nextId,
                                   volStart |-> p.volume,
                                   volEnd |-> targetVolume.num,
                                   timeStart |-> t,
                                   timeEnd |-> JsAdd(t, p.fadeDuration),
                                   callback |-> callback],
                         !.nextId = @ + 1,
                         !.superseded = @ \cup Superseded(p)], t))

\* this.fade.callback instanceof Function && this.fade.callback()
InvokeCallback(p, t) ==
    LET f == p.fade
        q == [p EXCEPT !.calls[f.id] = @ + 1]
    IN  CASE ~Callable(f.callback) -> p
          [] f.callback = "noop" -> q
          [] f.callback = "startOnce" -> IF p.calls[f.id] = 0 THEN start(q, t) ELSE q
          [] f.callback = "fadeTo" -> fadeTo(q, JsNum(ChainTarget), "noop", t)
          [] f.callback = "throws" -> [q EXCEPT !.thrown = "Error"]

\* updateVolume without the test of this.active
updateVolume_ignoresActive(p, t) ==
    IF p.fade # NoFade
    THEN IF JsLess(t, p.fade.timeEnd)
         THEN ReturnThis([SetMediaVolume(p, volumeScaler(p.scaler, Level(p.fade, t)))
                            EXCEPT !.raf = @ + 1])
         ELSE LET jumped == SetMediaVolume(p, volumeScaler(p.scaler, p.fade.volEnd))
                  called == InvokeCallback([jumped EXCEPT !.active = FALSE], t)
              IN  IF called.thrown # "none" THEN called
                  ELSE ReturnThis([called EXCEPT !.fade = NoFade])
    ELSE ReturnThis(p)

updateVolume(p, t) ==
    IF p.active /\ p.fade # NoFade
    THEN IF JsLess(t, p.fade.timeEnd)
         THEN \* apply the scaled level, schedule the next update
              ReturnThis([SetMediaVolume(p, volumeScaler(p.scaler, Level(p.fade, t)))
                            EXCEPT !.raf = @ + 1])
         ELSE \* jump to the target, go inactive, call back, clear the fade
              LET jumped == SetMediaVolume(p, volumeScaler(p.scaler, p.fade.volEnd))
                  called == InvokeCallback([jumped EXCEPT !.active = FALSE], t)
              IN  IF called.thrown # "none" THEN called
                  ELSE ReturnThis([called EXCEPT !.fade = NoFade])
    ELSE ReturnThis(p)

\* fadeIn( callback ) { this.fadeTo( 1, callback ) }
fadeIn(p, callback, t) == ReturnUndefined(fadeTo(p, JsNum(VolOne), callback, t))

\* fadeOut( callback ) { this.fadeTo( 0, callback ) }
fadeOut(p, callback, t) == ReturnUndefined(fadeTo(p, JsNum(0), callback, t))

\* ------------------------------------------------------------- constructor
\* new VolumeFader( media, options ) on a media element of volume mediaVolume;
\* an option not given is JsUndefined, options.volumeScaler is the name of the
\* scaling function ("undefined" when not given, "notAFunction" for a bad one)
constructor(mediaVolume, optScaler, optInitialVolume, optFadeDuration) ==
    LET p0 == [volume |-> mediaVolume, active |-> FALSE, fade |-> NoFade,
               fadeDuration |-> JsUndefined, scaler |-> "exponentialScaler",
               raf |-> 0, calls |-> [i \in FadeIds |-> 0], nextId |-> 1,
               superseded |-> {}, writes |-> <<>>, thrown |-> "none",
               returned |-> "undefined"]
        p1 == IF optScaler = "undefined" THEN p0
              ELSE IF optScaler = "notAFunction"
                   THEN [p0 EXCEPT !.thrown = "TypeError: volume scaler"]
              ELSE [p0 EXCEPT !.scaler = optScaler]
        p2 == IF p1.thrown # "none" \/ optInitialVolume = JsUndefined THEN p1
              ELSE IF ~validateVolumeLevel(optInitialVolume)
                   THEN [p1 EXCEPT !.thrown = "TypeError: volume"]
                   ELSE SetMediaVolume(p1, volumeScaler(p1.scaler, optInitialVolume.num))
        p3 == IF p2.thrown # "none" THEN p2
              ELSE IF optFadeDuration # JsUndefined THEN setFadeDuration(p2, optFadeDuration)
              ELSE [p2 EXCEPT !.fadeDuration = JsNum(DefaultFadeDuration)]
    IN  ReturnThis(p3)

\* the first arguments a caller passes to new VolumeFader: an audio element,
\* or an object that is no HTMLMediaElement, { volume: ... }
MediaArguments(mediaVolume) ==
    {[element |-> e, volume |-> mediaVolume] : e \in BOOLEAN}

\* new VolumeFader( media, options ): media instanceof HTMLMediaElement is
\* tested first, the rest of the constructor runs on a media element only
VolumeFader(media, optScaler, optInitialVolume, optFadeDuration) ==
    IF media.element
    THEN constructor(media.volume, optScaler, optInitialVolume, optFadeDuration)
    ELSE [constructor(media.volume, "undefined", JsUndefined, JsUndefined)
            EXCEPT !.fadeDuration = JsUndefined,
                   !.thrown = "TypeError: media element",
                   !.returned = "undefined"]

\* ============================================ the interval-timer variant
\* ------------------------------------------------------------------ utility
\* validZeroToOne( number )
validZeroToOne(number) ==
    ~NumberIsNaN(number) /\ JsGreaterEq(number, 0) /\ JsLessEq(number, IvVolOne)

\* validPositive( number )
validPositive(number) == ~NumberIsNaN(number) /\ JsGreater(number, 0)

\* this._fade = undefined
NoIvFade == [volume |-> 0, timestamp |-> JsNum(0), callback |-> "undefined"]

\* the callbacks a caller passes to fadeTo:
\*   undefined   no callback given
\*   noop        function() {}
\*   fadeTo      function() { fader.fadeTo( IvChainTarget, function() {} ) }
\*   throws      function() { throw new Error() }
IvCallbackKinds == {"undefined", "noop", "fadeTo", "throws"}

\* the target of the fade a "fadeTo" callback defines
IvChainTarget == IvVolOne \div 2

\* the fader as one value, threaded through the handlers; called counts the
\* callbacks the handler invoked
IvFader == [volume |-> ivVolume, fade |-> ivFade, fadeDuration |-> ivFadeDuration,
            updateInterval |-> updateInterval, intervalTimer |-> intervalTimer,
            armed |-> armed, nextTimer |-> nextTimer,
            called |-> 0, thrown |-> "none", returned |-> "undefined"]

\* get active() { return !! this._intervalTimer }: a timer id is a positive
\* integer
iv_active(q) == q.intervalTimer # 0

\* clearInterval( id ): disarms the timer of that id, if there is one
clearInterval(q, id) == [q EXCEPT !.armed = {tm \in @ : tm.id # id}]

\* this._intervalTimer = setInterval( this.updateVolume.bind( this ), interval )
setInterval(q, interval) ==
    [q EXCEPT !.armed = @ \cup {[id |-> q.nextTimer, interval |-> interval]},
              !.intervalTimer = q.nextTimer,
              !.nextTimer = @ + 1]

\* -------------------------------------------------------------------- stop()
iv_stop(q) == ReturnThis(clearInterval(q, q.intervalTimer))

\* ----------------------------------------------- start(), setUpdateInterval()
\* start() without an argument, keeping the old timer: no this.active && this.stop()
iv_restart_keepsOldTimer(q) == ReturnThis(setInterval(q, q.updateInterval))

\* start() without an argument: stop the old timer if active, arm a new one
iv_restart(q) ==
    ReturnThis(setInterval(IF iv_active(q) THEN iv_stop(q) ELSE q, q.updateInterval))

\* setUpdateInterval( updateInterval )
iv_setUpdateInterval(q, u) ==
    IF validPositive(u)
    THEN LET saved == [q EXCEPT !.updateInterval = u]
         IN  ReturnThis(IF iv_active(saved) THEN iv_restart(saved) ELSE saved)
    ELSE [q EXCEPT !.thrown = "TypeError: update interval"]

\* start( updateInterval )
iv_start(q, u) ==
    LET given == IF u # JsUndefined THEN iv_setUpdateInterval(q, u) ELSE q
    IN  IF given.thrown # "none" THEN given ELSE iv_restart(given)

\* ---------------------------------------------------------- setFadeDuration()
iv_setFadeDuration(q, d) ==
    IF validPositive(d)
    THEN ReturnThis([q EXCEPT !.fadeDuration = d])
    ELSE [q EXCEPT !.thrown = "TypeError: fade duration"]

\* ------------------------------------------------------------------ fadeTo()
iv_fadeTo(q, targetVolume, callback, t) ==
    IF ~validZeroToOne(targetVolume)
    THEN [q EXCEPT !.thrown = "TypeError: volume"]
    ELSE ReturnThis([q EXCEPT !.fade = [volume |-> targetVolume.num,
                                        timestamp |-> JsAdd(t, q.fadeDuration),
                                        callback |-> callback]])

\* fadeIn( callback ) { this.fadeTo( 1, callback ) }
iv_fadeIn(q, callback, t) == ReturnUndefined(iv_fadeTo(q, JsNum(IvVolOne), callback, t))

\* fadeOut( callback ) { this.fadeTo( 0, callback ) }
iv_fadeOut(q, callback, t) == ReturnUndefined(iv_fadeTo(q, JsNum(0), callback, t))

\* ------------------------------------------------------------ updateVolume()
\* remainingTime > this._updateInterval, remainingTime = fade.timestamp - now;
\* an interval that is undefined compares false
TimeLeft(q, t) ==
    /\ q.updateInterval.tag = "number"
    /\ \/ q.fade.timestamp.tag = "Infinity"
       \/ q.fade.timestamp.num - t > q.updateInterval.num

\* volumeDelta * this._updateInterval / remainingTime
volumeIncrement(q, t) ==
    IF q.fade.timestamp.tag = "Infinity" THEN 0
    ELSE RoundDiv((q.fade.volume - q.volume) * q.updateInterval.num,
                  q.fade.timestamp.num - t)

\* this._fade.callback instanceof Function && this._fade.callback()
IvInvokeCallback(q, t) ==
    LET f == q.fade
        r == [q EXCEPT !.called = @ + 1]
    IN  CASE ~Callable(f.callback) -> q
          [] f.callback = "noop" -> r
          [] f.callback = "fadeTo" -> iv_fadeTo(r, JsNum(IvChainTarget), "noop", t)
          [] f.callback = "throws" -> [r EXCEPT !.thrown = "Error: callback"]

iv_updateVolume(q, t) ==
    IF q.fade # NoIvFade
    THEN IF TimeLeft(q, t)
         THEN \* adjust the volume by the increment
              ReturnThis([q EXCEPT !.volume = @ + volumeIncrement(q, t)])
         ELSE \* jump to the target, call back, clear the fade
              LET jumped == [q EXCEPT !.volume = q.fade.volume]
                  called == IvInvokeCallback(jumped, t)
              IN  IF called.thrown # "none"
                  THEN \* the error of the callback leaves updateVolume
                       called
                  ELSE ReturnThis([called EXCEPT !.fade = NoIvFade])
    ELSE ReturnThis(q)

\* ------------------------------------------------------------- constructor
\* new VolumeFader( mediaElement, initialVolume, fadeDuration, updateInterval )
\* on a media element of volume mediaVolume.  The test of the media element,
\* ! mediaElement instanceof HTMLMediaElement, is false for every argument.
iv_constructor(mediaVolume, initialVolume, optFadeDuration, optUpdateInterval) ==
    LET q0 == [volume |-> mediaVolume, fade |-> NoIvFade, fadeDuration |-> JsUndefined,
               updateInterval |-> JsUndefined, intervalTimer |-> 0, armed |-> {},
               nextTimer |-> 1, called |-> 0, thrown |-> "none",
               returned |-> "undefined"]
        q1 == IF validZeroToOne(initialVolume)
              THEN [q0 EXCEPT !.volume = initialVolume.num] ELSE q0
        q2 == IF iv_setFadeDuration(q1, optFadeDuration).thrown = "none"
              THEN iv_setFadeDuration(q1, optFadeDuration)
              ELSE iv_setFadeDuration(q1, JsNum(DefaultFadeDuration))
        q3 == IF optUpdateInterval = JsNum(0) THEN q2
              ELSE iv_restart(IF iv_setUpdateInterval(q2, optUpdateInterval).thrown = "none"
                              THEN iv_setUpdateInterval(q2, optUpdateInterval)
                              ELSE iv_setUpdateInterval(q2, JsNum(DefaultUpdateInterval)))
    IN  ReturnThis(q3)

\* the first arguments a caller passes to new VolumeFader: an audio element,
\* an object that is no HTMLMediaElement, { volume: ... }, or undefined
IvMediaArguments(mediaVolume) ==
    {[kind |-> k, volume |-> mediaVolume] :
        k \in {"HTMLMediaElement", "object", "undefined"}}

\* ! value: false for an object, true for undefined
JsNot(value) == [kind |-> "boolean", truth |-> (value.kind = "undefined")]

\* value instanceof HTMLMediaElement
InstanceOfHTMLMediaElement(value) == value.kind = "HTMLMediaElement"

\* new VolumeFader( mediaElement, ... ) with the test of the media element,
\* ! mediaElement instanceof HTMLMediaElement: the negation binds first, and
\* the test is made on the boolean.  media is what this._media holds ("none"
\* before it is assigned); this._media.volume = initialVolume on undefined
\* raises a TypeError of the engine.
IvVolumeFader(mediaElement, initialVolume, optFadeDuration, optUpdateInterval) ==
    LET q0 == [iv_constructor(mediaElement.volume, JsUndefined, JsUndefined, JsNum(0))
                 EXCEPT !.fadeDuration = JsUndefined, !.returned = "undefined"]
    IN  IF InstanceOfHTMLMediaElement(JsNot(mediaElement))
        THEN [media |-> "none"] @@ [q0 EXCEPT !.thrown = "TypeError: media element"]
        ELSE IF mediaElement.kind = "undefined" /\ validZeroToOne(initialVolume)
        THEN [media |-> mediaElement.kind]
                 @@ [q0 EXCEPT !.thrown = "TypeError: property of undefined"]
        ELSE [media |-> mediaElement.kind]
                 @@ iv_constructor(mediaElement.volume, initialVolume,
                                   optFadeDuration, optUpdateInterval)

\* the interval-timer fader as its constructor leaves it
IvConstructed(q) ==
    /\ q.thrown = "none"
    /\ ivVolume = q.volume
    /\ ivFade = q.fade
    /\ ivFadeDuration = q.fadeDuration
    /\ updateInterval = q.updateInterval
    /\ intervalTimer = q.intervalTimer
    /\ armed = q.armed
    /\ nextTimer = q.nextTimer

\* the interval-timer fader where it is not run
IvUnused == IvConstructed(iv_constructor(IvVolOne, JsUndefined, JsUndefined, JsNum(0)))

\* the requestAnimationFrame fader where it is not run
RafUnused ==
    LET p == constructor(VolOne, "undefined", JsUndefined, JsUndefined)
    IN  /\ volume = p.volume
        /\ active = p.active
        /\ fade = p.fade
        /\ fadeDuration = p.fadeDuration
        /\ scaler = p.scaler
        /\ raf = p.raf
        /\ calls = p.calls
        /\ nextId = p.nextId
        /\ superseded = p.superseded

\* ======================================= the requestAnimationFrame fader
\* ------------------------------------------------------------------ inputs
\* volume levels a caller passes: 0, 1 and the invalid 1.5, -0.1, NaN
ValidTargets == {JsNum(0), JsNum(VolOne)}
InvalidTargets == {JsNum(VolOne + VolOne \div 2), JsNum(-(VolOne \div 10)), JsNaN}
TargetVolumes == ValidTargets \cup InvalidTargets

\* the callbacks the caller of the runs passes to fadeTo: a value that is not
\* callable makes the same fades as no callback, it is left to the calls the
\* properties look at
CallerCallbacks == CallbackKinds \ {"notCallable"}

\* the callbacks a caller passes to fadeIn and fadeOut
ConvenienceCallbacks == {"undefined", "noop"}

\* fade durations a caller passes
FadeDurations == {JsNum(-1), JsNum(0), JsNum(2), JsNaN, JsInfinity, JsNonNumeric}

\* ----------------------------------------------------------------- actions
\* the fader after a handler that ended in p
Becomes(p) ==
    /\ volume' = p.volume
    /\ active' = p.active
    /\ fade' = p.fade
    /\ fadeDuration' = p.fadeDuration
    /\ scaler' = p.scaler
    /\ raf' = p.raf
    /\ calls' = p.calls
    /\ nextId' = p.nextId
    /\ superseded' = p.superseded
    /\ now' = now
    /\ UNCHANGED ivVars

Init ==
    \E mediaVolume \in {VolOne},
       optScaler \in {"undefined", "linearScaler"},
       optInitialVolume \in {JsNum(VolOne \div 2)},
       optFadeDuration \in {JsUndefined} :
        LET p == constructor(mediaVolume, optScaler, optInitialVolume, optFadeDuration)
        IN  /\ p.thrown = "none"
            /\ volume = p.volume
            /\ active = p.active
            /\ fade = p.fade
            /\ fadeDuration = p.fadeDuration
            /\ scaler = p.scaler
            /\ raf = p.raf
            /\ calls = p.calls
            /\ nextId = p.nextId
            /\ superseded = p.superseded
            /\ now = 0
            /\ IvUnused

\* bounds of the counters: pending frames, fade records, callback invocations
CanSchedule == raf < MaxRaf
CanCreate == nextId <= MaxFades
CanCall == IF fade = NoFade THEN TRUE ELSE calls[fade.id] < MaxCalls

\* the clock advances between two handlers
Tick ==
    /\ now < MaxTime
    /\ now' = now + 1
    /\ UNCHANGED <<rafVars, ivVars>>

\* the caller calls fader.start()
Start == CanSchedule /\ CanCall /\ Becomes(start(Fader, now))

\* the caller calls fader.stop()
Stop == Becomes(stop(Fader))

\* the caller calls fader.setFadeDuration( d )
SetFadeDuration(d) == Becomes(setFadeDuration(Fader, d))

\* the caller calls fader.fadeTo( targetVolume, callback )
FadeTo(targetVolume, callback) ==
    CanSchedule /\ CanCreate /\ Becomes(fadeTo(Fader, targetVolume, callback, now))

\* the caller calls fader.fadeIn( callback )
FadeIn(callback) == CanSchedule /\ CanCreate /\ Becomes(fadeIn(Fader, callback, now))

\* the caller calls fader.fadeOut( callback )
FadeOut(callback) == CanSchedule /\ CanCreate /\ Becomes(fadeOut(Fader, callback, now))

\* the frame callback the browser runs: one pending updateVolume
Frame == updateVolume([Fader EXCEPT !.raf = @ - 1], now)

AnimationFrame == raf > 0 /\ CanCall /\ Becomes(Frame)

Next ==
    \/ Tick
    \/ Start
    \/ Stop
    \/ \E d \in FadeDurations : SetFadeDuration(d)
    \/ \E targetVolume \in ValidTargets, callback \in CallerCallbacks :
           FadeTo(targetVolume, callback)
    \/ \E targetVolume \in InvalidTargets : FadeTo(targetVolume, "noop")
    \/ \E callback \in ConvenienceCallbacks : FadeIn(callback)
    \/ \E callback \in ConvenienceCallbacks : FadeOut(callback)
    \/ AnimationFrame

Spec == Init /\ [][Next]_vars

\* The fader with a caller that never calls stop(), a browser that runs every
\* frame callback requested (requestAnimationFrame) and a clock that goes on.
NextNoStop ==
    \/ Tick
    \/ Start
    \/ \E d \in FadeDurations : SetFadeDuration(d)
    \/ \E targetVolume \in ValidTargets, callback \in CallerCallbacks :
           FadeTo(targetVolume, callback)
    \/ \E targetVolume \in InvalidTargets : FadeTo(targetVolume, "noop")
    \/ \E callback \in ConvenienceCallbacks : FadeIn(callback)
    \/ \E callback \in ConvenienceCallbacks : FadeOut(callback)
    \/ AnimationFrame

\* ENABLED <<AnimationFrame>>_vars written out: a frame is pending and running
\* it changes the fader (a step with time left that writes the volume already
\* set changes nothing)
FrameCanRun ==
    /\ raf > 0
    /\ CanCall
    /\ ~(active /\ fade # NoFade /\ JsLess(now, fade.timeEnd) /\ Frame.volume = volume)

\* WF_vars(AnimationFrame), with FrameCanRun for the ENABLED predicate
FrameFairness == []<>(~FrameCanRun) \/ []<><<AnimationFrame>>_vars

LiveSpec == Init /\ [][NextNoStop]_vars /\ WF_vars(Tick) /\ FrameFairness

\* ======================== the interval-timer variant: inputs and actions
\* ------------------------------------------------------------------ inputs
\* volume levels a caller passes: 0, 1 and the invalid 1.5, -0.1, NaN
IvTargetVolumes ==
    {JsNum(0), JsNum(IvVolOne), JsNum(IvVolOne + IvVolOne \div 2), JsNum(-1), JsNaN}

\* update intervals a caller passes: 1 ms steps a fade of 2 ms once before
\* its time is up
UpdateIntervals == {JsNum(0), JsNum(1), JsNum(100), JsNaN}

\* fade durations a caller passes
IvFadeDurations == {JsNum(0), JsNum(2)}

\* ----------------------------------------------------------------- actions
\* the fader after a handler that ended in q
IvBecomes(q) ==
    /\ ivVolume' = q.volume
    /\ ivFade' = q.fade
    /\ ivFadeDuration' = q.fadeDuration
    /\ updateInterval' = q.updateInterval
    /\ intervalTimer' = q.intervalTimer
    /\ armed' = q.armed
    /\ nextTimer' = q.nextTimer
    /\ UNCHANGED <<rafVars, now>>

TimerInit ==
    /\ \E initialVolume \in {JsNum(IvVolOne \div 2)},
          optUpdateInterval \in {JsUndefined, JsNum(0)} :
           IvConstructed(iv_constructor(IvVolOne, initialVolume, JsUndefined,
                                        optUpdateInterval))
    /\ now = 0
    /\ RafUnused

\* bound of the timer ids: a call arms at most two timers
CanArm == nextTimer < MaxTimers

\* the caller calls fader.start( u )
IvStart(u) == CanArm /\ IvBecomes(iv_start(IvFader, u))

\* the caller calls fader.stop()
IvStop == IvBecomes(iv_stop(IvFader))

\* the caller calls fader.setUpdateInterval( u )
IvSetUpdateInterval(u) == CanArm /\ IvBecomes(iv_setUpdateInterval(IvFader, u))

\* the caller calls fader.setFadeDuration( d )
IvSetFadeDuration(d) == IvBecomes(iv_setFadeDuration(IvFader, d))

\* the caller calls fader.fadeTo( targetVolume, callback )
IvFadeTo(targetVolume, callback) ==
    IvBecomes(iv_fadeTo(IvFader, targetVolume, callback, now))

\* the caller calls fader.fadeIn( callback )
IvFadeIn(callback) == IvBecomes(iv_fadeIn(IvFader, callback, now))

\* the caller calls fader.fadeOut( callback )
IvFadeOut(callback) == IvBecomes(iv_fadeOut(IvFader, callback, now))

\* the tick of an armed interval timer: updateVolume
IvTick == iv_updateVolume(IvFader, now)

IntervalTick == armed # {} /\ IvBecomes(IvTick)

TimerNext ==
    \/ Tick
    \/ \E u \in {JsUndefined} \cup UpdateIntervals : IvStart(u)
    \/ IvStop
    \/ \E u \in UpdateIntervals : IvSetUpdateInterval(u)
    \/ \E d \in IvFadeDurations : IvSetFadeDuration(d)
    \/ \E targetVolume \in IvTargetVolumes, callback \in IvCallbackKinds :
           IvFadeTo(targetVolume, callback)
    \/ \E callback \in IvCallbackKinds : IvFadeIn(callback)
    \/ \E callback \in IvCallbackKinds : IvFadeOut(callback)
    \/ IntervalTick

TimerSpec == TimerInit /\ [][TimerNext]_vars

\* ------------------------------------------------------------------ claims
\* the handler calls a caller can make in the current state, with their outcomes
InRange(v) == 0 <= v /\ v <= VolOne
AllInRange(ws) == \A k \in DOMAIN ws : InRange(ws[k])

\* the fader is in its finishing case: active, a fade present, its time is up
Finishing == active /\ fade # NoFade /\ ~JsLess(now, fade.timeEnd)

\* stopped during a fade: inactive with the fade retained, its callback not invoked
StoppedInFade == ~active /\ fade # NoFade /\ (IF fade.id = 0 THEN FALSE ELSE calls[fade.id] = 0)

Idle(p) == ~p.active /\ p.fade = NoFade

\* C1: the callback of every fade record is invoked at most once (and exactly
\* once when the fade reaches its finishing update step), whatever the caller
\* and the callbacks call on the fader.  The code invokes it twice when the
\* callback calls start(), and again after a callback that threw.
C1_CallbackAtMostOnce == \A i \in FadeIds : calls[i] <= 1

\* C2: a fade replaced by fadeTo while it was in flight is no longer the
\* fader's record (one record, no queue), and its callback is never invoked,
\* whichever update steps run afterwards.
C2_SupersededNeverCalled ==
    \A i \in superseded : calls[i] = 0 /\ fade.id # i

\* C2 happens: a fade with a callback was replaced in flight, every pending
\* frame has run, its successor finished and invoked its own callback
C2_Witness ==
    /\ superseded # {}
    /\ fade = NoFade
    /\ raf = 0
    /\ \E j \in FadeIds : j \notin superseded /\ calls[j] = 1

\* C3: the update step that finishes a fade writes volumeScaler(endVolume) and
\* leaves the fader Idle (inactive, no fade record) when it returns.  The code
\* keeps the record when the callback throws, and returns active when the
\* callback starts a new fade.
C3_FinishingStepEndsIdle ==
    (Finishing /\ raf > 0 /\ CanCall) =>
        /\ Frame.writes # <<>>
        /\ Frame.writes[1] = volumeScaler(scaler, fade.volEnd)
        /\ Idle(Frame)

\* C4: every value written to media.volume lies in [0,1]: the value the
\* constructor writes, the value every update step writes, also the steps a
\* callback causes.  (A fadeTo with an invalid target writes nothing: C5.  The
\* constructor's write, for every initial volume, is looked at in the states
\* before the first fade.)
C4_WrittenVolumeInRange ==
    /\ InRange(volume)
    /\ (CanSchedule /\ CanCall) => AllInRange(start(Fader, now).writes)
    /\ (raf > 0 /\ CanCall) => AllInRange(Frame.writes)
    /\ (CanSchedule /\ CanCreate) =>
           \A targetVolume \in ValidTargets, callback \in CallbackKinds :
               AllInRange(fadeTo(Fader, targetVolume, callback, now).writes)
    /\ (nextId = 1 /\ now = 0) =>
           \A optScaler \in {"undefined", "linearScaler"},
              optInitialVolume \in {JsUndefined} \cup TargetVolumes :
               AllInRange(constructor(VolOne, optScaler, optInitialVolume,
                                      JsUndefined).writes)

\* C4 happens: an update step inside a fade has written a level strictly
\* between the start and the end of the fade
C4_Witness ==
    /\ active /\ fade # NoFade
    /\ fade.timeStart < now /\ JsLess(now, fade.timeEnd)
    /\ Level(fade, now) # fade.volStart /\ Level(fade, now) # fade.volEnd
    /\ volume = volumeScaler(scaler, Level(fade, now))

\* C5: fadeTo with a target outside [0,1] (1.5, -0.1, NaN) throws and leaves
\* fade, active, media volume, fade duration and pending frames as they were.
C5_InvalidFadeToChangesNothing ==
    \A targetVolume \in InvalidTargets, callback \in CallbackKinds :
        fadeTo(Fader, targetVolume, callback, now)
            = [Fader EXCEPT !.thrown = "TypeError: volume"]

\* C5 happens: fadeTo( 1.5 ) throws on a fader that is stopped with a retained
\* fade and a frame still pending
C5_Witness ==
    /\ StoppedInFade /\ raf > 0 /\ now > fade.timeStart
    /\ fadeTo(Fader, JsNum(VolOne + VolOne \div 2), "noop", now).thrown = "TypeError: volume"

\* a finite number greater than 0
FinitePositive(d) == d.tag = "number" /\ d.num > 0

\* a number that is not NaN and is greater than 0: finite or +Infinity
PositiveNumber(d) == FinitePositive(d) \/ d.tag = "Infinity"

\* C6 as claimed: setFadeDuration stores d if and only if d is a finite number
\* greater than 0, and throws, leaving the duration, for every other argument.
C6_StoresIffFinitePositive ==
    \A d \in FadeDurations :
        LET r == setFadeDuration(Fader, d)
        IN  IF FinitePositive(d)
            THEN r.thrown = "none" /\ r.fadeDuration = d
            ELSE r.thrown = "TypeError: fade duration" /\ r.fadeDuration = fadeDuration

\* What setFadeDuration does instead: it stores d if and only if d is a number
\* other than NaN that is greater than 0, +Infinity included; it throws,
\* leaving the duration, for every other argument.
C6_StoresIffPositiveNumber ==
    \A d \in FadeDurations :
        LET r == setFadeDuration(Fader, d)
        IN  IF PositiveNumber(d)
            THEN r.thrown = "none" /\ r.fadeDuration = d
            ELSE r.thrown = "TypeError: fade duration" /\ r.fadeDuration = fadeDuration

\* C6 fails: Infinity was stored as the fade duration
C6_Witness == fadeDuration = JsInfinity

\* C7: a successful setFadeDuration changes nothing but the stored duration
\* (not the fade in flight, the active flag, the volume or the pending frames),
\* and a fade record fadeTo creates ends at its creation time plus the
\* duration stored at that moment.
C7_DurationOnlyForLaterFades ==
    /\ \A d \in FadeDurations :
           LET r == setFadeDuration(Fader, d)
           IN  r.thrown = "none" => r = [Fader EXCEPT !.fadeDuration = d, !.returned = "this"]
    /\ (CanSchedule /\ CanCreate) =>
           \A targetVolume \in ValidTargets, callback \in CallbackKinds :
               LET r == fadeTo(Fader, targetVolume, callback, now)
               IN  /\ r.fade.id = nextId
                   /\ r.fade.timeStart = now
                   /\ r.fade.timeEnd = JsAdd(now, fadeDuration)

\* C7 happens: the duration was changed while a fade is in flight, and the
\* fade still ends at the time set when it was created
C7_Witness ==
    /\ active /\ fade # NoFade /\ raf > 0
    /\ fade.timeEnd = JsNum(fade.timeStart + 2)
    /\ fadeDuration # JsNum(2)

\* C8: start, stop, setFadeDuration, fadeTo, fadeIn and fadeOut return the
\* fader whenever they do not throw.  fadeIn and fadeOut return undefined.
C8_MethodsReturnThis ==
    LET Returns(r) == r.thrown = "none" => r.returned = "this"
    IN  /\ Returns(start(Fader, now))
        /\ Returns(stop(Fader))
        /\ \A d \in FadeDurations : Returns(setFadeDuration(Fader, d))
        /\ \A callback \in CallbackKinds :
               /\ \A targetVolume \in TargetVolumes :
                      Returns(fadeTo(Fader, targetVolume, callback, now))
               /\ Returns(fadeIn(Fader, callback, now))
               /\ Returns(fadeOut(Fader, callback, now))

\* C9: stop() during a fade clears active and keeps the fade record, and while
\* the fader is inactive a frame callback (also one scheduled before the stop)
\* changes neither the volume nor the fade record, invokes no callback and
\* leaves the fader inactive.
C9_StoppedFaderIsFrozen ==
    /\ LET r == stop(Fader)
       IN  ~r.active /\ r.fade = fade /\ r.volume = volume /\ r.calls = calls
    /\ (~active /\ raf > 0) =>
           /\ Frame.volume = volume /\ Frame.writes = <<>>
           /\ Frame.fade = fade
           /\ Frame.calls = calls
           /\ ~Frame.active

\* C9 happens: the fader was stopped during a fade, the end time of the fade
\* has passed and every pending frame has run
C9_Witness ==
    StoppedInFade /\ raf = 0 /\ ~JsLess(now, fade.timeEnd)

\* C10: stop() is idempotent: a second stop() throws nothing and leaves the
\* fader as the first left it.
C10_StopIdempotent ==
    LET once == stop(Fader)
    IN  once.thrown = "none" /\ stop(once) = once

\* C10 happens: the fader was stopped during a fade with a frame pending, the
\* state from which a second stop() is called
C10_Witness ==
    StoppedInFade /\ raf > 0 /\ JsLess(now, fade.timeEnd)

\* C11: the active flag is true if and only if an update callback is pending
\* in requestAnimationFrame, in every reachable state.  The code sets the flag
\* in start() although no frame is requested without a fade, and clears it in
\* stop() although the pending frame stays requested.
C11_ActiveIffFramePending == active <=> raf > 0

\* C12: finalization is unconditional: when the callback of the finishing
\* update step throws, the step still ends with the fade record cleared and
\* active false, so nothing finishes the same fade again.  The code leaves the
\* record in place, because the throw skips this.fade = undefined.
C12_FinalizationUnconditional ==
    (Finishing /\ raf > 0 /\ fade.callback = "throws" /\ calls[fade.id] = 0) =>
        /\ Frame.thrown = "Error"
        /\ Frame.calls[fade.id] = 1
        /\ Idle(Frame)

\* C13: fadeTo with a callback argument that is present and not callable
\* throws at the call and creates no fade record.  The code stores the value
\* in the record and skips it silently when the fade finishes.
C13_NonCallableCallbackRejected ==
    \A targetVolume \in ValidTargets :
        LET r == fadeTo(Fader, targetVolume, "notCallable", now)
        IN  r.thrown # "none" /\ r.fade = fade /\ r.nextId = nextId

\* C16: at most one update callback of the fader is pending in
\* requestAnimationFrame.  The code requests a second one when start() or
\* fadeTo() runs while a frame is pending.
C16_AtMostOneFramePending == raf <= 1

\* C17: start() sets active and runs one update step before it returns.  On a
\* stopped fader that retains a fade the step uses the current time against
\* the start and end times of the record: before the end it applies the level
\* of the current time and requests a frame; at or after the end the fade
\* finishes inside start(): the volume snaps to volumeScaler(endVolume), the
\* callback fires and the fader is Idle when start() returns.  The code is not
\* Idle after a callback that throws or that calls fadeTo.
C17_StartRunsStepAtCurrentTime ==
    /\ (fade = NoFade) =>
           LET r == start(Fader, now)
           IN  r.active /\ r.writes = <<>> /\ r.returned = "this"
    /\ (StoppedInFade /\ CanSchedule) =>
           LET r == start(Fader, now)
           IN  IF JsLess(now, fade.timeEnd)
               THEN /\ r.active /\ r.fade = fade /\ r.raf = raf + 1
                    /\ r.writes = <<volumeScaler(scaler, Level(fade, now))>>
                    /\ r.returned = "this"
               ELSE /\ r.writes # <<>>
                    /\ r.writes[1] = volumeScaler(scaler, fade.volEnd)
                    /\ Callable(fade.callback) => r.calls[fade.id] > 0
                    /\ Idle(r)
                    /\ r.returned = "this"

\* v lies between a and b
Between(a, v, b) == (a <= v /\ v <= b) \/ (b <= v /\ v <= a)

\* the times of update steps of fade f looked at: every millisecond from the
\* start of f to the end of the clock, and every GridStep ms over the default
\* duration
GridStep == 100
NearTimes(f) == f.timeStart..(MaxTime + 1)
GridTimes(f) ==
    {f.timeStart + GridStep * k : k \in 0..(DefaultFadeDuration \div GridStep + 1)}

\* C18: within one fade from a to b the fade level of update steps at
\* non-decreasing times is non-decreasing when a < b, non-increasing when
\* a > b, and always between a and b; every update step, also the one start()
\* runs after a stop(), applies the level of its own time on the unchanged
\* record.
C18_LevelMonotonic ==
    /\ fade # NoFade =>
           LET a == fade.volStart
               b == fade.volEnd
               Ordered(t1, t2) ==
                   /\ (a < b) => StepLevel(fade, t1) <= StepLevel(fade, t2)
                   /\ (a > b) => StepLevel(fade, t1) >= StepLevel(fade, t2)
           IN  /\ \A t \in NearTimes(fade) :
                      /\ Between(a, StepLevel(fade, t), b)
                      /\ Ordered(t, t + 1)
               /\ \A t \in GridTimes(fade) :
                      /\ Between(a, StepLevel(fade, t), b)
                      /\ Ordered(t, t + GridStep)
    /\ (active /\ fade # NoFade /\ raf > 0 /\ CanCall) =>
           /\ Frame.writes[1] = volumeScaler(scaler, StepLevel(fade, now))
           /\ JsLess(now, fade.timeEnd) => Frame.fade = fade
    /\ (StoppedInFade /\ CanSchedule) =>
           start(Fader, now).writes[1] = volumeScaler(scaler, StepLevel(fade, now))

\* C18 happens: a rising fade was stopped after a step, time went on while it
\* was stopped, and the step start() runs now applies a higher level than the
\* one applied before the stop
C18_Witness ==
    /\ StoppedInFade /\ CanSchedule
    /\ fade.volStart < fade.volEnd
    /\ fade.timeStart < now /\ JsLess(now, fade.timeEnd)
    /\ fade.volStart < Level(fade, now) /\ Level(fade, now) < fade.volEnd
    /\ volume < start(Fader, now).volume

\* the fade ends at a finite time the clock reaches
EndsInTime(f) == f.timeEnd.tag = "number" /\ f.timeEnd.num <= MaxTime

\* fade i with target v is finished: its record is gone, the media volume is
\* volumeScaler(v), its callback was invoked when callable
Finished(i, v, callable) ==
    /\ fade.id # i
    /\ volume = volumeScaler(scaler, v)
    /\ callable => calls[i] >= 1

\* fade i was replaced by a later fadeTo
Replaced(i) == fade # NoFade /\ fade.id > i

\* every update step that finds time left requests exactly one further frame
StepReschedulesOnce ==
    (active /\ fade # NoFade /\ raf > 0 /\ JsLess(now, fade.timeEnd)) => Frame.raf = raf

\* C14: after a successful fadeTo with a finite duration, without stop(), with
\* every requested frame run and the clock going on, the fade finishes unless
\* a later fadeTo replaces it: the media volume is volumeScaler(target), the
\* record is gone and the callback, when callable, was invoked; until then
\* every step with time left requests exactly one further frame.  The code
\* never clears the record of a fade whose callback throws.
C14_FadeEventuallyFinishes ==
    /\ []StepReschedulesOnce
    /\ \A i \in 1..MaxFades, v \in {0, VolOne}, callable \in BOOLEAN :
           (fade.id = i /\ fade.volEnd = v /\ Callable(fade.callback) = callable
                /\ EndsInTime(fade))
               ~> (Finished(i, v, callable) \/ Replaced(i))

\* C14 for the callbacks that do not throw
C14_FinishesUnlessCallbackThrows ==
    /\ []StepReschedulesOnce
    /\ \A i \in 1..MaxFades, v \in {0, VolOne}, callable \in BOOLEAN :
           (fade.id = i /\ fade.volEnd = v /\ Callable(fade.callback) = callable
                /\ fade.callback # "throws" /\ EndsInTime(fade))
               ~> (Finished(i, v, callable) \/ Replaced(i))

\* C15: a fadeTo made by the completion callback of a finishing fade starts a
\* fade that survives the finishing step: when the step returns, the record
\* the callback created is the fader's record and the fader is active (and so
\* the new fade can finish and invoke its own callback later).  The code
\* clears the new record right after the callback returns.
C15_ChainedFadeSurvives ==
    (Finishing /\ raf > 0 /\ fade.callback = "fadeTo" /\ calls[fade.id] = 0) =>
        /\ Frame.thrown = "none"
        /\ Frame.active
        /\ Frame.fade # NoFade
        /\ Frame.fade.id = nextId
        /\ Frame.fade.volEnd = ChainTarget

\* C15 in the interval-timer variant: the fade a completion callback defines
\* with fadeTo is the fader's fade when the finishing tick returns.  The code
\* clears it as well.
C15_ChainedFadeSurvivesTimer ==
    (armed # {} /\ ivFade # NoIvFade /\ ivFade.callback = "fadeTo"
         /\ ~TimeLeft(IvFader, now)) =>
        /\ IvTick.fade # NoIvFade
        /\ IvTick.fade.volume = IvChainTarget

\* C19: in the interval-timer variant the active getter is true if and only if
\* an interval timer of the fader is armed; after stop() it is false, after
\* start() it is true.  The code's stop() clears the timer and keeps its id in
\* this._intervalTimer, so the getter stays true.
C19_ActiveIffTimerArmed ==
    /\ iv_active(IvFader) <=> armed # {}
    /\ LET r == iv_stop(IvFader)
       IN  r.armed = {} /\ ~iv_active(r)
    /\ CanArm =>
           LET r == iv_start(IvFader, JsUndefined)
           IN  r.armed # {} /\ iv_active(r)

\* C20: in the interval-timer variant at most one interval timer of the fader
\* is armed, it is the one this._intervalTimer names and it runs at the update
\* interval stored last; start() and a successful setUpdateInterval() leave
\* exactly the timer they armed last, a failed setUpdateInterval() and stop()
\* arm nothing.
C20_AtMostOneTimerArmed ==
    /\ Cardinality(armed) <= 1
    /\ \A tm \in armed : tm.id = intervalTimer /\ tm.interval = updateInterval
    /\ iv_stop(IvFader).armed = {}
    /\ CanArm =>
           /\ \A u \in {JsUndefined} \cup UpdateIntervals :
                  LET r == iv_start(IvFader, u)
                  IN  IF r.thrown = "none"
                      THEN /\ r.armed = {[id |-> r.intervalTimer,
                                          interval |-> r.updateInterval]}
                           /\ r.intervalTimer >= nextTimer
                           /\ r.updateInterval = IF u = JsUndefined THEN updateInterval ELSE u
                      ELSE r.armed = armed /\ r.updateInterval = updateInterval
           /\ \A u \in UpdateIntervals :
                  LET r == iv_setUpdateInterval(IvFader, u)
                  IN  IF r.thrown = "none"
                      THEN /\ r.updateInterval = u
                           /\ Cardinality(r.armed) <= 1
                           /\ \A tm \in r.armed :
                                  tm.id = r.intervalTimer /\ tm.interval = u
                           /\ armed # {} => r.armed # {}
                      ELSE r.armed = armed /\ r.updateInterval = updateInterval

\* C20 happens: the timer of a running fader was replaced (its id is not the
\* first) and runs at an interval set after construction, with a fade defined
C20_Witness ==
    /\ \E tm \in armed : tm.id > 1 /\ tm.interval = JsNum(100)
    /\ updateInterval = JsNum(100)
    /\ ivFade # NoIvFade

\* C21: a constructor call of src/volumefader.js that raises an error (media
\* that is no media element, a volume scaler that is no function, an invalid
\* initial volume, an invalid fade duration) leaves the volume of the media
\* as it was before the call.  The constructor reads no state of a fader, so
\* its calls are looked at in the states before the first fade.
C21_ThrowingConstructorKeepsVolume ==
    (nextId = 1 /\ now = 0) =>
        \A mediaVolume \in {0, VolOne} :
        \A media \in MediaArguments(mediaVolume) :
        \A optScaler \in {"undefined", "linearScaler", "notAFunction"} :
        \A optInitialVolume \in {JsUndefined} \cup TargetVolumes :
        \A optFadeDuration \in {JsUndefined} \cup FadeDurations :
            LET p == VolumeFader(media, optScaler, optInitialVolume, optFadeDuration)
            IN  p.thrown # "none" => p.volume = media.volume

\* C21, the calls that raise an error before the initial volume is written:
\* these leave the volume of the media as it was
C21_EarlyErrorsKeepVolume ==
    (nextId = 1 /\ now = 0) =>
        \A mediaVolume \in {0, VolOne} :
        \A media \in MediaArguments(mediaVolume) :
        \A optScaler \in {"undefined", "linearScaler", "notAFunction"} :
        \A optInitialVolume \in {JsUndefined} \cup TargetVolumes :
        \A optFadeDuration \in {JsUndefined} \cup FadeDurations :
            LET p == VolumeFader(media, optScaler, optInitialVolume, optFadeDuration)
            IN  p.thrown \in {"TypeError: media element", "TypeError: volume scaler",
                              "TypeError: volume"}
                    => p.volume = media.volume /\ p.writes = <<>>

\* C21: the fader is new, and new VolumeFader( media, { initialVolume: 0,
\* fadeDuration: 0 } ) on a media element of volume 1 raises the error of the
\* fade duration
C21_Witness ==
    /\ nextId = 1 /\ now = 0
    /\ VolumeFader([element |-> TRUE, volume |-> VolOne], "undefined",
                   JsNum(0), JsNum(0)).thrown = "TypeError: fade duration"

\* the tick finds a fade with time left: remainingTime > this._updateInterval
TickWithTimeLeft == armed # {} /\ ivFade # NoIvFade /\ TimeLeft(IvFader, now)

\* the tick finds a fade whose time is up
TickWithTimeUp == armed # {} /\ ivFade # NoIvFade /\ ~TimeLeft(IvFader, now)

\* C22, the tick with time left: it moves the volume by
\* volumeDelta * updateInterval / remainingTime, the new volume lies between
\* the old one and the target, never beyond the target, and the fade stays
C22_IncrementTowardTarget ==
    TickWithTimeLeft =>
        /\ IvTick.thrown = "none"
        /\ IvTick.volume - ivVolume
               = (IF ivFade.timestamp.tag = "Infinity" THEN 0
                  ELSE RoundDiv((ivFade.volume - ivVolume) * updateInterval.num,
                                ivFade.timestamp.num - now))
        /\ Between(ivVolume, IvTick.volume, ivFade.volume)
        /\ IvTick.fade = ivFade
        /\ IvTick.called = 0

\* C22, the tick whose time is up: it sets the volume to the target and invokes
\* a callable callback once
C22_JumpToTarget ==
    TickWithTimeUp =>
        /\ IvTick.volume = ivFade.volume
        /\ IvTick.called = (IF Callable(ivFade.callback) THEN 1 ELSE 0)

\* C22: in the interval-timer variant a tick that finds a fade with remaining
\* time greater than the update interval moves the volume by
\* volumeDelta * updateInterval / remainingTime, between the old volume and
\* the target, and the tick that finds the time up sets the volume to the
\* target, invokes the callback once and clears the fade.  The code keeps the
\* fade when the callback throws, and the next tick invokes it again.
C22_TickStepsThenFinishes ==
    /\ C22_IncrementTowardTarget
    /\ C22_JumpToTarget
    /\ TickWithTimeUp => IvTick.fade = NoIvFade

\* C22 with callbacks that return: the tick whose time is up clears the fade
C22_ClearsFadeUnlessCallbackThrows ==
    (TickWithTimeUp /\ ivFade.callback # "throws") =>
        IvTick.thrown = "none" /\ IvTick.fade = NoIvFade

\* C22: a tick finds the time of a fade up whose callback throws
C22_Witness ==
    /\ TickWithTimeUp
    /\ updateInterval.tag = "number"
    /\ ivFade.callback = "throws"

\* C22: a tick finds a fade with time left and moves the volume to a level
\* between the old volume and the target
C22_IncrementWitness ==
    TickWithTimeLeft /\ IvTick.volume # ivVolume /\ IvTick.volume # ivFade.volume

\* C22: a fade of 2 ms on a 1 ms timer was stepped once, and the tick now
\* finds its time up
C22_SteppedThenUpWitness ==
    /\ TickWithTimeUp
    /\ updateInterval = JsNum(1)
    /\ ivFade.timestamp = JsNum(2)
    /\ ivVolume \notin {0, IvVolOne \div 2, IvVolOne}

\* C23: in the interval-timer variant, new VolumeFader with a media argument
\* that is no HTMLMediaElement raises the TypeError of the media element
\* before any other effect: no media reference stored, no volume written, no
\* interval timer armed.  The constructor reads no state of a fader, so its
\* calls are looked at in the states before the first fade.  The
\* code's test is false for every argument, so the constructor goes on.
C23_NonElementRejected ==
    (now = 0 /\ ivFade = NoIvFade) =>
    \A mediaElement \in IvMediaArguments(IvVolOne) :
    \A initialVolume \in {JsUndefined, JsNum(IvVolOne \div 2)} :
    \A optFadeDuration \in {JsUndefined, JsNum(2)} :
    \A optUpdateInterval \in {JsUndefined, JsNum(0), JsNum(100)} :
        LET q == IvVolumeFader(mediaElement, initialVolume, optFadeDuration,
                               optUpdateInterval)
        IN  mediaElement.kind # "HTMLMediaElement" =>
                /\ q.thrown = "TypeError: media element"
                /\ q.media = "none"
                /\ q.volume = mediaElement.volume
                /\ q.armed = {}

\* C23: the fader is new, and new VolumeFader( { volume: 1 }, 0.5 ) stores the
\* object, writes its volume and arms a timer
C23_Witness ==
    /\ now = 0 /\ ivFade = NoIvFade
    /\ LET q == IvVolumeFader([kind |-> "object", volume |-> IvVolOne],
                               JsNum(IvVolOne \div 2), JsUndefined, JsUndefined)
       IN  /\ q.thrown = "none"
           /\ q.media = "object"
           /\ q.volume = IvVolOne \div 2
           /\ q.armed # {}

\* C23 for a media element: the constructor stores it and raises nothing
C23_ElementAccepted ==
    (now = 0 /\ ivFade = NoIvFade) =>
    \A initialVolume \in {JsUndefined, JsNum(IvVolOne \div 2)} :
    \A optFadeDuration \in {JsUndefined, JsNum(2)} :
    \A optUpdateInterval \in {JsUndefined, JsNum(0), JsNum(100)} :
        LET q == IvVolumeFader([kind |-> "HTMLMediaElement", volume |-> IvVolOne],
                               initialVolume, optFadeDuration, optUpdateInterval)
        IN  q.thrown = "none" /\ q.media = "HTMLMediaElement"

====
